---- MODULE Spec2Model ----
(***************************************************************************)
(* Model of the aggregator of nomad-node-problem-detector                  *)
(* (src/aggregator/aggregator.go): the polling loop of aggregate(), the    *)
(* per-node health diff, the eligibility toggle and the SIGUSR1 pause.     *)
(***************************************************************************)
EXTENDS Naturals, Sequences, FiniteSets

\* ------------------------------------------------------------------ data

\* Bound: the longest health snapshot a detector serves.
MaxChecks == 2

\* Bound: the number of SIGUSR1 signals counted by SpecSig.
MaxSignals == 6

NodeIDs == {"n1", "n2"}

\* Check types: a default resource check (detector_test.go) and a check
\* bound to a script by the config file (detector_test.go, "docker").
Types == {"MemoryUnderPressure", "docker"}

\* Result is a free string; "Unhealthy" and "true" are the two bad values.
\* A default check reports "true" or "false", a script check a verdict.
Results == {"false", "true", "Healthy", "Unhealthy"}

ResultsOf(type) ==
    IF type = "MemoryUnderPressure" THEN {"false", "true"}
                                 ELSE {"Healthy", "Unhealthy"}

Messages == {"msg"}

\* types.HealthCheck, as a detector reports it
HealthCheck ==
    { hc \in [Type : Types, Result : Results, Message : Messages] :
        hc.Result \in ResultsOf(hc.Type) }

\* The /v1/nodehealth/ bodies that decode: JSON arrays of HealthCheck.  The
\* detector serialises a registry keyed by Type, so a Type occurs once.
Snapshots ==
    UNION { { s \in [1..n -> HealthCheck] :
                \A i, j \in 1..n : s[i].Type = s[j].Type => i = j } :
            n \in 0..MaxChecks }

\* nodeHandle.List results: the cluster's nodes, each listed once.
NodeLists ==
    UNION { { l \in [1..n -> NodeIDs] :
                \A i, j \in 1..n : l[i] = l[j] => i = j } :
            n \in 0..Cardinality(NodeIDs) }

VARIABLES
    pc,       \* position of the aggregate() loop
    nodes,    \* the node list of the cycle in flight
    idx,      \* index of the node being ranged over
    m,        \* map[nodeID][]types.HealthCheck, a function on the known IDs
    pause,    \* the package variable pause
    seen,     \* the value of pause the loop observed last
    sigs,     \* number of signals buffered in the channel sigs (capacity 1)
    step,     \* what the latest transition did (I/O and inputs)
    sent,     \* SIGUSR1 signals delivered to the process
    handled,  \* signals received by flipPause
    failed,   \* nodes whose latest ToggleEligibility call failed
    down,     \* nodes last toggled ineligible for a non-200 liveness answer
    det       \* the detector: memory reading, calls of the check, registry

\* the variables that only SpecRetry, SpecRecover and SpecMem change
aux == <<failed, down, det>>

vars == <<pc, nodes, idx, m, pause, seen, sigs, step, sent, handled, aux>>

\* capacity of the channel sigs
SigsCap == 1

\* The record of a transition: the node visited, the outcome of its liveness
\* probe and of its snapshot request, the decoded snapshot (current), the
\* history found in m (known: the node had an entry; before: its value),
\* the locals nodeHealthy and stateChanged, and the ToggleEligibility calls.
NoStep(op) ==
    [op |-> op, node |-> "none", live |-> "none", fetch |-> "none",
     current |-> <<>>, known |-> FALSE, before |-> <<>>,
     healthy |-> TRUE, changed |-> FALSE, toggles |-> <<>>]

\* m[node.ID], nil (no entries) for a node without an entry
historyOf(map, node) == IF node \in DOMAIN map THEN map[node] ELSE <<>>

\* the step record of a visit of nodes[idx]
NodeStep(live, fetch) ==
    [NoStep("node") EXCEPT
        !.node = nodes[idx], !.live = live, !.fetch = fetch,
        !.known = nodes[idx] \in DOMAIN m,
        !.before = historyOf(m, nodes[idx])]

\* ------------------------------------------------------------ the diff

\* curr.Result == "Unhealthy" || curr.Result == "true"
IsBad(r) == r = "Unhealthy" \/ r = "true"

\* nodeHealthy with the test for "true" left out
nodeHealthy_UnhealthyOnly(current) ==
    \A i \in 1..Len(current) : current[i].Result # "Unhealthy"

\* nodeHealthy after the loop over current
nodeHealthy(current) ==
    \A i \in 1..Len(current) : ~IsBad(current[i].Result)

\* previous[nh.Type] = nh, a later entry of a Type overwriting an earlier one
previous(nodeHealth) ==
    [t \in { nodeHealth[i].Type : i \in 1..Len(nodeHealth) } |->
        LET last == CHOOSE i \in 1..Len(nodeHealth) :
                        /\ nodeHealth[i].Type = t
                        /\ \A j \in 1..Len(nodeHealth) :
                              nodeHealth[j].Type = t => j <= i
        IN  nodeHealth[last]]

\* stateChanged with the comparison of the two Results inverted
stateChanged_Inverted(prev, current) ==
    \E i \in 1..Len(current) :
        /\ current[i].Type \in DOMAIN prev
        /\ prev[current[i].Type].Result = current[i].Result

\* stateChanged set also by an entry whose Type is not in previous
stateChanged_NewType(prev, current) ==
    \E i \in 1..Len(current) :
        \/ current[i].Type \notin DOMAIN prev
        \/ prev[current[i].Type].Result # current[i].Result

\* stateChanged after the loop over current
stateChanged(prev, current) ==
    \E i \in 1..Len(current) :
        /\ current[i].Type \in DOMAIN prev
        /\ prev[current[i].Type].Result # current[i].Result

\* the loop over current with nodeHealthy assigned, not latched
RECURSIVE diffFrom_NoLatch(_, _, _, _, _)
diffFrom_NoLatch(prev, current, i, healthy, changed) ==
    IF i > Len(current)
    THEN [healthy |-> healthy, changed |-> changed]
    ELSE LET curr == current[i]
         IN  diffFrom_NoLatch(prev, current, i + 1,
                 ~IsBad(curr.Result),
                 IF curr.Type \in DOMAIN prev
                      /\ prev[curr.Type].Result # curr.Result
                 THEN TRUE ELSE changed)

\* the loop over current with an unchanged entry skipped before its test
RECURSIVE diffFrom_SkipsUnchanged(_, _, _, _, _)
diffFrom_SkipsUnchanged(prev, current, i, healthy, changed) ==
    IF i > Len(current)
    THEN [healthy |-> healthy, changed |-> changed]
    ELSE LET curr == current[i]
             known == curr.Type \in DOMAIN prev
             same == known /\ prev[curr.Type].Result = curr.Result
         IN  diffFrom_SkipsUnchanged(prev, current, i + 1,
                 IF ~same /\ IsBad(curr.Result) THEN FALSE ELSE healthy,
                 IF known /\ ~same THEN TRUE ELSE changed)

\* for _, curr := range current { ... }, from entry i on, with the values
\* nodeHealthy and stateChanged have before it
RECURSIVE diffFrom(_, _, _, _, _)
diffFrom(prev, current, i, healthy, changed) ==
    IF i > Len(current)
    THEN [healthy |-> healthy, changed |-> changed]
    ELSE LET curr == current[i]
         IN  diffFrom(prev, current, i + 1,
                 IF IsBad(curr.Result) THEN FALSE ELSE healthy,
                 IF curr.Type \in DOMAIN prev
                      /\ prev[curr.Type].Result # curr.Result
                 THEN TRUE ELSE changed)

\* nodeHealthy := true; stateChanged := false; the loop
diff(prev, current) == diffFrom(prev, current, 1, TRUE, FALSE)

\* the toggle condition without the first-observation case
shouldToggle_ChangedOnly(prev, current) == stateChanged(prev, current)

\* the toggle condition without the stateChanged case
shouldToggle_FirstOnly(prev, current) == Cardinality(DOMAIN prev) = 0

\* the toggle condition of a loop that toggles in every cycle
shouldToggle_Always(prev, current) == TRUE

\* len(previous) == 0 || stateChanged
shouldToggle(prev, current) ==
    Cardinality(DOMAIN prev) = 0 \/ stateChanged(prev, current)

\* toggleNodeEligibility passing the negated flag
toggleNodeEligibility_Inverted(nodeID, eligible, ok) ==
    [id |-> nodeID, eligible |-> ~eligible, ok |-> ok]

\* toggleNodeEligibility: one ToggleEligibility call, whose error is logged
toggleNodeEligibility(nodeID, eligible, ok) ==
    [id |-> nodeID, eligible |-> eligible, ok |-> ok]

\* --------------------------------------------------------------- Init

\* the detector before getMemoryStats ran: var m = make(map[string]HealthCheck)
NoDetector ==
    [reading |-> 0, atLimit |-> "false", calls |-> <<>>,
     registry |-> [t \in {} |-> <<>>]]

Init ==
    /\ pc = "head"
    /\ nodes = <<>>
    /\ idx = 1
    /\ m = [n \in {} |-> <<>>]
    /\ pause = FALSE
    /\ seen = FALSE
    /\ sigs = 0
    /\ step = NoStep("init")
    /\ sent = 0
    /\ handled = 0
    /\ failed = {}
    /\ down = {}
    /\ det = NoDetector

\* ------------------------------------------------------- the main loop

\* the loop head without the test of pause
LoopHead_IgnoresPause ==
    /\ pc = "head"
    /\ \E v \in {pause, seen} :
         /\ seen' = v
         /\ pc' = "list"
         /\ step' = NoStep(IF v THEN "spin" ELSE "resume")
    /\ UNCHANGED <<nodes, idx, m, pause, sigs, sent, handled, aux>>

\* for { if pause { continue } ... : the unsynchronised read of pause gives
\* the value flipPause wrote or the one the loop already holds.
LoopHead ==
    /\ pc = "head"
    /\ \E v \in {pause, seen} :
         /\ seen' = v
         /\ pc' = IF v THEN "head" ELSE "list"
         /\ step' = NoStep(IF v THEN "spin" ELSE "resume")
    /\ UNCHANGED <<nodes, idx, m, pause, sigs, sent, handled, aux>>

\* a failed listing without its continue: the loop ranges over a list
ListNodesError_RangesAnyway ==
    /\ pc = "list"
    /\ \E l \in NodeLists : nodes' = l
    /\ idx' = 1
    /\ pc' = "nodes"
    /\ step' = NoStep("listerr")
    /\ UNCHANGED <<m, pause, seen, sigs, sent, handled, aux>>

\* nodeHandle.List fails: log, sleep, continue
ListNodesError ==
    /\ pc = "list"
    /\ pc' = "sleep"
    /\ step' = NoStep("listerr")
    /\ UNCHANGED <<nodes, idx, m, pause, seen, sigs, sent, handled, aux>>

\* nodeHandle.List returns the nodes
ListNodesOk ==
    /\ pc = "list"
    /\ \E l \in NodeLists : nodes' = l
    /\ idx' = 1
    /\ pc' = "nodes"
    /\ step' = NoStep("list")
    /\ UNCHANGED <<m, pause, seen, sigs, sent, handled, aux>>

InRange == pc = "nodes" /\ idx <= Len(nodes)

\* a liveness error handled like a non-200 answer
LivenessError_MarksIneligible ==
    /\ pc = "nodes" /\ idx <= Len(nodes)
    /\ idx' = idx + 1
    /\ \E ok \in BOOLEAN :
         step' = [NodeStep("err", "none") EXCEPT
                    !.toggles = <<toggleNodeEligibility(nodes[idx], FALSE, ok)>>]
    /\ UNCHANGED <<pc, nodes, m, pause, seen, sigs, sent, handled, aux>>

\* isNpdServerActive returns an error: log "unreachable, skipping node"
LivenessError ==
    /\ InRange
    /\ idx' = idx + 1
    /\ step' = NodeStep("err", "none")
    /\ UNCHANGED <<pc, nodes, m, pause, seen, sigs, sent, handled, aux>>

\* a non-200 answer that only skips the node
LivenessNon200_Skips ==
    /\ pc = "nodes" /\ idx <= Len(nodes)
    /\ idx' = idx + 1
    /\ step' = NodeStep("non200", "none")
    /\ UNCHANGED <<pc, nodes, m, pause, seen, sigs, sent, handled, aux>>

\* isNpdServerActive returns false: toggle the node ineligible
Non200Visit ==
    /\ InRange
    /\ idx' = idx + 1
    /\ \E ok \in BOOLEAN :
         step' = [NodeStep("non200", "none") EXCEPT
                    !.toggles = <<toggleNodeEligibility(nodes[idx], FALSE, ok)>>]
    /\ UNCHANGED <<pc, nodes, m, pause, seen, sigs, sent, handled>>

LivenessNon200 == Non200Visit /\ UNCHANGED aux

\* client.Do fails on /v1/nodehealth/: resp.Body.Close() is called on the
\* response of the failed call.  A nil resp (the usual case) panics; a
\* non-nil resp (CheckRedirect failure) lets the loop continue.
SnapshotRequestError ==
    /\ InRange
    /\ \E respNil \in BOOLEAN :
         /\ pc' = IF respNil THEN "crashed" ELSE pc
         /\ idx' = IF respNil THEN idx ELSE idx + 1
    /\ step' = NodeStep("ok", "reqerr")
    /\ UNCHANGED <<nodes, m, pause, seen, sigs, sent, handled, aux>>

\* ioutil.ReadAll fails
BodyReadError ==
    /\ InRange
    /\ idx' = idx + 1
    /\ step' = NodeStep("ok", "readerr")
    /\ UNCHANGED <<pc, nodes, m, pause, seen, sigs, sent, handled, aux>>

\* a decode error without its continue: the diff runs on the empty current
DecodeError_FallsThrough ==
    /\ pc = "nodes" /\ idx <= Len(nodes)
    /\ idx' = idx + 1
    /\ \E ok \in BOOLEAN :
         LET node == nodes[idx]
             prev == previous(historyOf(m, node))
         IN  /\ step' = [NodeStep("ok", "decodeerr") EXCEPT
                           !.toggles =
                               IF shouldToggle(prev, <<>>)
                               THEN <<toggleNodeEligibility(node, TRUE, ok)>>
                               ELSE <<>>]
             /\ m' = [n \in DOMAIN m \cup {node} |->
                        IF n = node THEN <<>> ELSE m[n]]
    /\ UNCHANGED <<pc, nodes, pause, seen, sigs, sent, handled, aux>>

\* json.Unmarshal fails
DecodeError ==
    /\ InRange
    /\ idx' = idx + 1
    /\ step' = NodeStep("ok", "decodeerr")
    /\ UNCHANGED <<pc, nodes, m, pause, seen, sigs, sent, handled, aux>>

\* the visit storing the snapshot only when it toggles
DiffVisit_StoresOnToggle ==
    /\ pc = "nodes" /\ idx <= Len(nodes)
    /\ \E current \in Snapshots, ok \in BOOLEAN :
         LET node == nodes[idx]
             prev == previous(historyOf(m, node))
             calls == IF shouldToggle(prev, current)
                      THEN <<toggleNodeEligibility(node, nodeHealthy(current), ok)>>
                      ELSE <<>>
         IN  /\ step' = [NodeStep("ok", "decoded") EXCEPT
                           !.current = current,
                           !.healthy = nodeHealthy(current),
                           !.changed = stateChanged(prev, current),
                           !.toggles = calls]
             /\ m' = IF calls = <<>> THEN m
                    ELSE [n \in DOMAIN m \cup {node} |->
                            IF n = node THEN current ELSE m[n]]
    /\ idx' = idx + 1
    /\ UNCHANGED <<pc, nodes, pause, seen, sigs, sent, handled>>

\* the visit with the map m made anew for the node
DiffVisit_ResetsMap ==
    /\ pc = "nodes" /\ idx <= Len(nodes)
    /\ \E current \in Snapshots, ok \in BOOLEAN :
         LET node == nodes[idx]
             prev == previous(historyOf(m, node))
             calls == IF shouldToggle(prev, current)
                      THEN <<toggleNodeEligibility(node, nodeHealthy(current), ok)>>
                      ELSE <<>>
         IN  /\ step' = [NodeStep("ok", "decoded") EXCEPT
                           !.current = current,
                           !.healthy = nodeHealthy(current),
                           !.changed = stateChanged(prev, current),
                           !.toggles = calls]
             /\ m' = [n \in {node} |-> current]
    /\ idx' = idx + 1
    /\ UNCHANGED <<pc, nodes, pause, seen, sigs, sent, handled>>

\* the snapshot is decoded: diff against the stored history, toggle, store
DiffVisit ==
    /\ InRange
    /\ \E current \in Snapshots, ok \in BOOLEAN :
         LET node == nodes[idx]
             prev == previous(historyOf(m, node))
             calls == IF shouldToggle(prev, current)
                      THEN <<toggleNodeEligibility(node, nodeHealthy(current), ok)>>
                      ELSE <<>>
         IN  /\ step' = [NodeStep("ok", "decoded") EXCEPT
                           !.current = current,
                           !.healthy = nodeHealthy(current),
                           !.changed = stateChanged(prev, current),
                           !.toggles = calls]
             /\ m' = [n \in DOMAIN m \cup {node} |->
                        IF n = node THEN current ELSE m[n]]
    /\ idx' = idx + 1
    /\ UNCHANGED <<pc, nodes, pause, seen, sigs, sent, handled>>

DiffAndToggle == DiffVisit /\ UNCHANGED aux

\* the range over nodes is exhausted: time.Sleep(aggregationCycleTime)
EndOfRange ==
    /\ pc = "nodes"
    /\ idx > Len(nodes)
    /\ pc' = "sleep"
    /\ step' = NoStep("sleep")
    /\ UNCHANGED <<nodes, idx, m, pause, seen, sigs, sent, handled, aux>>

\* the sleep returns, next iteration
WakeUp ==
    /\ pc = "sleep"
    /\ pc' = "head"
    /\ nodes' = <<>>
    /\ idx' = 1
    /\ step' = NoStep("wake")
    /\ UNCHANGED <<m, pause, seen, sigs, sent, handled, aux>>

\* ------------------------------------------------------------- signals

\* signal.Notify(sigs, SIGUSR1): the runtime sends without blocking, a
\* signal that finds the channel full is dropped.
Deliver ==
    /\ pc # "crashed"
    /\ sigs' = IF sigs < SigsCap THEN sigs + 1 ELSE sigs
    /\ step' = NoStep("signal")

\* flipPause: case <-sigs: pause = !pause
Flip ==
    /\ pc # "crashed"
    /\ sigs > 0
    /\ sigs' = sigs - 1
    /\ pause' = ~pause
    /\ step' = NoStep("flip")

Signal ==
    /\ Deliver
    /\ UNCHANGED <<pc, nodes, idx, m, pause, seen, sent, handled, aux>>

flipPause ==
    /\ Flip
    /\ UNCHANGED <<pc, nodes, idx, m, seen, sent, handled, aux>>

Next ==
    \/ LoopHead
    \/ ListNodesError
    \/ ListNodesOk
    \/ LivenessError
    \/ LivenessNon200
    \/ SnapshotRequestError
    \/ BodyReadError
    \/ DecodeError
    \/ DiffAndToggle
    \/ EndOfRange
    \/ WakeUp
    \/ Signal
    \/ flipPause

Spec == Init /\ [][Next]_vars

\* ----------------------------------------------- counting the signals

\* Signal, counting the signals delivered
SignalCounted ==
    /\ sent < MaxSignals
    /\ Deliver
    /\ sent' = sent + 1
    /\ UNCHANGED <<pc, nodes, idx, m, pause, seen, handled, aux>>

\* flipPause, counting the signals received
flipPauseCounted ==
    /\ Flip
    /\ handled' = handled + 1
    /\ UNCHANGED <<pc, nodes, idx, m, seen, sent, aux>>

\* The aggregator under SIGUSR1 while the node listing fails: the loop, the
\* channel and flipPause.
SigNext ==
    \/ LoopHead
    \/ ListNodesError
    \/ WakeUp
    \/ SignalCounted
    \/ flipPauseCounted

SpecSig == Init /\ [][SigNext]_vars

\* ------------------------------------------ following a failed toggle

\* failed after a visit: the node joins when its ToggleEligibility call
\* fails, leaves when a later call for it succeeds
TrackFailed ==
    failed' = IF step'.toggles = <<>> THEN failed
              ELSE IF step'.toggles[1].ok THEN failed \ {step'.node}
              ELSE failed \cup {step'.node}

Non200Retry == Non200Visit /\ TrackFailed /\ UNCHANGED <<down, det>>

DiffRetry == DiffVisit /\ TrackFailed /\ UNCHANGED <<down, det>>

\* The aggregator while no SIGUSR1 is sent, remembering the failed calls.
RetryNext ==
    \/ LoopHead
    \/ ListNodesError
    \/ ListNodesOk
    \/ LivenessError
    \/ Non200Retry
    \/ SnapshotRequestError
    \/ BodyReadError
    \/ DecodeError
    \/ DiffRetry
    \/ EndOfRange
    \/ WakeUp

SpecRetry == Init /\ [][RetryNext]_vars

\* --------------------------------------------- following an outage

\* the ToggleEligibility calls of the visit succeeded
TogglesSucceed == \A i \in 1..Len(step'.toggles) : step'.toggles[i].ok

\* the non-200 visit, whose toggle-ineligible call marks the node down
Non200Down ==
    /\ Non200Visit
    /\ TogglesSucceed
    /\ down' = down \cup {step'.node}
    /\ UNCHANGED <<failed, det>>

\* the decoded visit, whose toggle call ends the mark
DiffRecover ==
    /\ DiffVisit
    /\ TogglesSucceed
    /\ down' = IF step'.toggles = <<>> THEN down ELSE down \ {step'.node}
    /\ UNCHANGED <<failed, det>>

\* The aggregator while no SIGUSR1 is sent and every toggle call succeeds,
\* remembering the nodes toggled ineligible for a non-200 liveness answer.
RecoverNext ==
    \/ LoopHead
    \/ ListNodesError
    \/ ListNodesOk
    \/ LivenessError
    \/ Non200Down
    \/ SnapshotRequestError
    \/ BodyReadError
    \/ DecodeError
    \/ DiffRecover
    \/ EndOfRange
    \/ WakeUp

SpecRecover == Init /\ [][RecoverNext]_vars

\* ------------------------------------------------- the memory check

\* free-memory percentages the operating system may report
Readings == 0..100

\* thresholds the check is called with, those of TestMemoryStats among them
MemoryLimits == {5, 30, 60, 95}

\* The verdict of the memory check for a free-memory percentage and a limit:
\* under pressure when the used share, 100 - free, is above the limit.  The
\* verdict at equality is a property of the build, the same for every call.
MemoryResult_FreeBelow(free, memoryLimit, atLimit) ==
    IF free < memoryLimit THEN "true" ELSE "false"

MemoryResult(free, memoryLimit, atLimit) ==
    IF 100 - free > memoryLimit THEN "true"
    ELSE IF 100 - free < memoryLimit THEN "false"
    ELSE atLimit

\* the detector before any check ran, on a machine with some memory reading
MemInit ==
    /\ pc = "head"
    /\ nodes = <<>>
    /\ idx = 1
    /\ m = [n \in {} |-> <<>>]
    /\ pause = FALSE
    /\ seen = FALSE
    /\ sigs = 0
    /\ step = NoStep("init")
    /\ sent = 0
    /\ handled = 0
    /\ failed = {}
    /\ down = {}
    /\ det \in {[NoDetector EXCEPT !.reading = r, !.atLimit = a] :
                    r \in Readings, a \in {"true", "false"}}

\* getMemoryStats(memoryLimit): records the verdict under its Type; calls
\* keeps the last two calls made on this reading
getMemoryStats ==
    \E memoryLimit \in MemoryLimits :
        LET result == MemoryResult(det.reading, memoryLimit, det.atLimit)
            call == [limit |-> memoryLimit, result |-> result]
            entry == [Type |-> "MemoryUnderPressure", Result |-> result,
                      Message |-> "msg"]
        IN  /\ det' = [det EXCEPT
                  !.calls = IF det.calls = <<>> THEN <<call>>
                            ELSE <<det.calls[Len(det.calls)], call>>,
                  !.registry = [t \in DOMAIN det.registry \cup {entry.Type} |->
                                  IF t = entry.Type THEN entry
                                  ELSE det.registry[t]]]
            /\ UNCHANGED <<pc, nodes, idx, m, pause, seen, sigs, step, sent,
                           handled, failed, down>>

\* delete(m, Type): the test empties the registry between the calls
DeleteEntry ==
    /\ "MemoryUnderPressure" \in DOMAIN det.registry
    /\ det' = [det EXCEPT
          !.registry = [t \in DOMAIN det.registry \ {"MemoryUnderPressure"} |->
                          det.registry[t]]]
    /\ UNCHANGED <<pc, nodes, idx, m, pause, seen, sigs, step, sent,
                   handled, failed, down>>

MemNext ==
    \/ getMemoryStats
    \/ DeleteEntry

SpecMem == MemInit /\ [][MemNext]_vars

\* ------------------------------------------------- the diff on its own

\* Bound: the longest history and snapshot given to the diff.
MaxDiffLen == 2

\* Results given to the diff: any string may come with any Type
DiffResults == {"false", "true", "Unhealthy"}

\* histories and snapshots given to the diff: any JSON array of HealthCheck,
\* a Type may occur more than once
DiffInputs ==
    UNION { [1..n -> [Type : Types, Result : DiffResults, Message : Messages]] :
            n \in 0..MaxDiffLen }

\* a stored history and a decoded snapshot, before the diff
DiffInit ==
    /\ pc = "nodes"
    /\ nodes = <<"n1">>
    /\ idx = 1
    /\ m = [n \in {} |-> <<>>]
    /\ pause = FALSE
    /\ seen = FALSE
    /\ sigs = 0
    /\ sent = 0
    /\ handled = 0
    /\ failed = {}
    /\ down = {}
    /\ det = NoDetector
    /\ \E h \in DiffInputs, c \in DiffInputs :
         step = [NoStep("input") EXCEPT !.before = h, !.current = c]

\* lines 170-198 on the history and the snapshot
ApplyDiff ==
    /\ step.op = "input"
    /\ LET out == diff(previous(step.before), step.current)
       IN  step' = [step EXCEPT !.op = "diff",
                                !.healthy = out.healthy,
                                !.changed = out.changed]
    /\ UNCHANGED <<pc, nodes, idx, m, pause, seen, sigs, sent, handled, aux>>

SpecDiff == DiffInit /\ [][ApplyDiff]_vars

TypeOK ==
    /\ pc \in {"head", "list", "nodes", "sleep", "crashed"}
    /\ nodes \in NodeLists
    /\ idx \in 1..(Len(nodes) + 1)
    /\ DOMAIN m \subseteq NodeIDs
    /\ \A n \in DOMAIN m : m[n] \in Snapshots
    /\ pause \in BOOLEAN
    /\ seen \in BOOLEAN
    /\ sigs \in 0..SigsCap
    /\ sent \in 0..MaxSignals
    /\ handled \in 0..sent
\* ------------------------------------------------------------ properties

\* the visit of step.node got a 200 liveness answer and decoded a snapshot
Decoded == step.op = "node" /\ step.live = "ok" /\ step.fetch = "decoded"

\* no entry of the snapshot has Result "Unhealthy" or "true"
NoBadEntry(s) ==
    \A i \in 1..Len(s) : s[i].Result \notin {"Unhealthy", "true"}

\* exactly one toggle call was issued, for step.node, with the given flag
OneToggle(eligible) ==
    /\ Len(step.toggles) = 1
    /\ step.toggles[1].id = step.node
    /\ step.toggles[1].eligible = eligible

\* the history of step.node is what it was before the visit
HistoryKept ==
    /\ (step.node \in DOMAIN m) = step.known
    /\ step.known => m[step.node] = step.before

\* every Result fetched equals the Result stored for the same Type
SameResults ==
    \A i \in 1..Len(step.current) :
        \E j \in 1..Len(step.before) :
            /\ step.before[j].Type = step.current[i].Type
            /\ step.before[j].Result = step.current[i].Result

\* a Type of the stored history is fetched with another Result
KnownTypeChanged ==
    \E i \in 1..Len(step.current) :
        \E j \in 1..Len(step.before) :
            /\ step.before[j].Type = step.current[i].Type
            /\ step.before[j].Result # step.current[i].Result

MemFalse == [Type |-> "MemoryUnderPressure", Result |-> "false", Message |-> "msg"]
MemTrue == [Type |-> "MemoryUnderPressure", Result |-> "true", Message |-> "msg"]

\* C1: a node whose stored history is absent or empty, visited with a 200
\* liveness answer and a decoded snapshot, gets exactly one toggle call, with
\* eligible = TRUE iff the snapshot has no "Unhealthy"/"true" entry, and the
\* stored history becomes the snapshot.
C1_FirstObservationToggles ==
    (Decoded /\ step.before = <<>>) =>
        /\ OneToggle(NoBadEntry(step.current))
        /\ step.node \in DOMAIN m
        /\ m[step.node] = step.current

C1_Witness ==
    /\ Decoded
    /\ ~step.known
    /\ step.current = <<MemFalse>>
    /\ OneToggle(TRUE)
    /\ m[step.node] = step.current

\* C2 as stated: when every fetched Result equals the Result stored for the
\* same Type by the preceding successful cycle, no toggle call is issued,
\* whatever the snapshot.
C2_SameResultsNoToggle ==
    (Decoded /\ step.known /\ SameResults) => step.toggles = <<>>

\* C2 amended: the same, for a stored history that is not empty.
C2_SameResultsNoToggleNonEmpty ==
    (Decoded /\ step.known /\ step.before # <<>> /\ SameResults) =>
        step.toggles = <<>>

C2_Witness ==
    /\ Decoded
    /\ step.known
    /\ Len(step.before) = 2
    /\ step.current = step.before
    /\ step.toggles = <<>>

\* C3 as stated: a liveness probe that fails with an error gets a
\* toggle-ineligible call, no diff, and the history is unchanged.
C3_LivenessErrorTogglesIneligible ==
    (step.op = "node" /\ step.live = "err") =>
        /\ OneToggle(FALSE)
        /\ step.fetch = "none"
        /\ HistoryKept

\* C3 amended: a liveness probe that fails with an error issues no toggle
\* call, runs no diff, and the history is unchanged.
C3_LivenessErrorSkipsNode ==
    (step.op = "node" /\ step.live = "err") =>
        /\ step.toggles = <<>>
        /\ step.fetch = "none"
        /\ HistoryKept

C3_Witness ==
    /\ step.op = "node"
    /\ step.live = "err"
    /\ step.before # <<>>
    /\ m[step.node] = step.before

\* C4: a liveness probe answered with a status other than 200 gets exactly
\* one toggle-ineligible call, no snapshot is fetched, and the history is
\* unchanged.
C4_Non200TogglesIneligible ==
    (step.op = "node" /\ step.live = "non200") =>
        /\ OneToggle(FALSE)
        /\ step.fetch = "none"
        /\ step.current = <<>>
        /\ HistoryKept

C4_Witness ==
    /\ step.op = "node"
    /\ step.live = "non200"
    /\ step.before # <<>>
    /\ OneToggle(FALSE)
    /\ m[step.node] = step.before

\* a transition that met one of the failures of the loop
StepFailed ==
    \/ step.op = "listerr"
    \/ step.op = "node" /\ step.live \in {"err", "non200"}
    \/ step.op = "node" /\ step.fetch \in {"reqerr", "readerr", "decodeerr"}
    \/ \E i \in 1..Len(step.toggles) : ~step.toggles[i].ok

\* C5: no failure is fatal: after a failed listing, liveness probe, snapshot
\* request, body read, decode or toggle call the loop is still running, at
\* the next node of the list or at the sleep before the next cycle.
C5_NoFailureIsFatal ==
    StepFailed => pc \in {"nodes", "sleep"}

\* C6: a 200 liveness answer followed by a failed snapshot (request, body
\* read or decode error) issues no toggle call and leaves the history
\* unchanged.
C6_SnapshotFailureSkipsNode ==
    (step.op = "node" /\ step.live = "ok"
        /\ step.fetch \in {"reqerr", "readerr", "decodeerr"}) =>
        /\ step.toggles = <<>>
        /\ HistoryKept

C6_Witness ==
    /\ step.op = "node"
    /\ step.fetch = "decodeerr"
    /\ step.before # <<>>
    /\ step.toggles = <<>>
    /\ m[step.node] = step.before

\* C7 as stated: whenever the verdict of the fetched snapshot differs from
\* the verdict of the stored snapshot, a toggle call matching the new verdict
\* is issued, also when a Type appeared or disappeared.
C7_VerdictChangeToggles ==
    (Decoded /\ step.known
        /\ NoBadEntry(step.current) # NoBadEntry(step.before)) =>
        OneToggle(NoBadEntry(step.current))

\* C7 amended: when the verdict differs and the stored history is empty or a
\* Type of the stored history is fetched with another Result, a toggle call
\* matching the new verdict is issued; when the verdict differs only because
\* Types appeared or disappeared, no toggle call is issued.
C7_VerdictChangeOfKnownTypeToggles ==
    (Decoded /\ step.known
        /\ NoBadEntry(step.current) # NoBadEntry(step.before)) =>
        IF step.before = <<>> \/ KnownTypeChanged
        THEN OneToggle(NoBadEntry(step.current))
        ELSE step.toggles = <<>>

C7_Witness ==
    /\ Decoded
    /\ step.known
    /\ NoBadEntry(step.before)
    /\ ~NoBadEntry(step.current)
    /\ KnownTypeChanged
    /\ OneToggle(FALSE)

\* C8: the verdict of a decoded snapshot is unhealthy iff it has an entry
\* with Result "Unhealthy" or "true", whatever the stored history, and a
\* toggle call carries that verdict; previous = [MemoryUnderPressure "false"]
\* and current = [MemoryUnderPressure "true"] give stateChanged, an unhealthy
\* verdict and one toggle-ineligible call.
C8_OneBadEntryIsUnhealthy ==
    Decoded =>
        /\ step.healthy = NoBadEntry(step.current)
        /\ \A i \in 1..Len(step.toggles) :
              step.toggles[i].eligible = NoBadEntry(step.current)
        /\ (step.before = <<MemFalse>> /\ step.current = <<MemTrue>>) =>
              (step.changed /\ ~step.healthy /\ OneToggle(FALSE))

C8_Witness ==
    /\ Decoded
    /\ step.before = <<MemFalse>>
    /\ step.current = <<MemTrue>>
    /\ ~step.healthy
    /\ OneToggle(FALSE)

\* C9: while the loop has observed pause = TRUE it lists no nodes, sends no
\* request, issues no toggle call and updates no history; the observation
\* changes only at the head of an iteration, and a flip of pause leaves the
\* position of the loop and the cycle in flight as they are.
C9_PausedLoopDoesNoWork ==
    [][ /\ seen' =>
            /\ step'.op \in {"spin", "signal", "flip"}
            /\ step'.toggles = <<>>
            /\ m' = m
        /\ (seen' # seen) => pc = "head"
        /\ (pause' # pause) =>
            (pc' = pc /\ nodes' = nodes /\ idx' = idx /\ m' = m) ]_vars

C9_Witness ==
    /\ step.op = "spin"
    /\ pause
    /\ seen
    /\ pc = "head"
    /\ DOMAIN m # {}

\* C10: once the signals sent have been handled, pause is TRUE iff their
\* number is odd: no signal is lost.
C10_EverySignalFlips ==
    (sigs = 0) => (pause <=> (sent % 2 = 1))
\* C11: a failed listing skips the cycle: the step probes no node, issues
\* no toggle call and leaves m as it is, the loop goes to the sleep, and
\* from there nothing is visited or written before the next listing.
C11_FailedListingSkipsCycle ==
    [][ /\ step'.op = "listerr" =>
            /\ pc' = "sleep"
            /\ step'.node = "none" /\ step'.live = "none"
            /\ step'.fetch = "none" /\ step'.toggles = <<>>
            /\ m' = m
        /\ (step.op = "listerr" \/ pc \in {"sleep", "head"}) =>
            /\ pc' \in {"sleep", "head", "list"}
            /\ step'.op # "node"
            /\ m' = m ]_vars

C11_Witness ==
    /\ step.op = "listerr"
    /\ pc = "sleep"
    /\ DOMAIN m = NodeIDs
    /\ \A n \in NodeIDs : m[n] # <<>>
\* C12 as stated: a cycle whose toggle call fails still stores the snapshot,
\* and for a node whose latest toggle call failed a decoded cycle issues a
\* toggle call only if a Type of the stored history is fetched with another
\* Result (none while the results stay the same).
C12_FailedToggleNotRetried ==
    [][ Decoded' =>
          /\ (\E i \in 1..Len(step'.toggles) : ~step'.toggles[i].ok) =>
                m'[step'.node] = step'.current
          /\ step'.node \in failed =>
                (step'.toggles # <<>> => KnownTypeChanged') ]_vars

\* C12 amended: the same while the stored history is not empty, where a toggle
\* call is issued exactly when a known Type changes its Result; with an empty
\* stored history the next decoded cycle issues a toggle call again.
C12_FailedToggleNotRetriedNonEmpty ==
    [][ Decoded' =>
          /\ (\E i \in 1..Len(step'.toggles) : ~step'.toggles[i].ok) =>
                m'[step'.node] = step'.current
          /\ (step'.node \in failed /\ step'.before # <<>>) =>
                (step'.toggles # <<>> <=> KnownTypeChanged')
          /\ (step'.node \in failed /\ step'.before = <<>>) =>
                Len(step'.toggles) = 1 ]_vars

C12_Witness ==
    /\ Decoded
    /\ step.node \in failed
    /\ step.before # <<>>
    /\ step.current = step.before
    /\ step.toggles = <<>>
\* the sequences with the entries of s in every order
PermsOf(s) ==
    { [i \in 1..Len(s) |-> s[p[i]]] :
        p \in { f \in [1..Len(s) -> 1..Len(s)] :
                  \A i, j \in 1..Len(s) : f[i] = f[j] => i = j } }

\* C13: the verdict of the diff is the same for every order of the entries
\* of the snapshot and for every stored history.
C13_VerdictOfSnapshotOnly ==
    step.op = "diff" =>
        \A q \in PermsOf(step.current) :
            /\ diff(previous(<<>>), q).healthy = step.healthy
            /\ diff(previous(step.before), q).healthy = step.healthy

C13_Witness ==
    /\ step.op = "diff"
    /\ Len(step.current) = 2
    /\ step.current[1].Result = "true"
    /\ step.current[2].Result = "false"
    /\ step.before = <<step.current[2]>>
    /\ ~step.healthy
DockerUnhealthy == [Type |-> "docker", Result |-> "Unhealthy", Message |-> "msg"]

\* C15: stateChanged is true iff an entry of the snapshot has a Type of the
\* stored history with another Result; with a stored history that is not
\* empty, a snapshot without such an entry (new Types only, even unhealthy
\* ones) issues no toggle call.
C15_OnlyKnownTypesSetStateChanged ==
    Decoded =>
        /\ step.changed <=> KnownTypeChanged
        /\ (step.before # <<>> /\ ~KnownTypeChanged) => step.toggles = <<>>

C15_Witness ==
    /\ Decoded
    /\ step.before = <<MemFalse>>
    /\ step.current = <<MemFalse, DockerUnhealthy>>
    /\ ~step.changed
    /\ step.toggles = <<>>
\* C16: after a visit with a 200 liveness answer and a decoded snapshot the
\* stored history of the node is exactly that snapshot, whether or not a
\* toggle call was issued or succeeded; m has one entry per node identifier.
C16_HistoryIsLastSnapshot ==
    /\ DOMAIN m \subseteq NodeIDs
    /\ Decoded =>
        /\ step.node \in DOMAIN m
        /\ m[step.node] = step.current
        /\ Len(m[step.node]) = Len(step.current)

C16_Witness ==
    /\ Decoded
    /\ step.before = <<MemFalse, DockerUnhealthy>>
    /\ step.current = <<MemFalse>>
    /\ step.toggles = <<>>
    /\ m[step.node] = <<MemFalse>>

\* C17: the visit of a node leaves the entry of every other node in m as it
\* is and issues toggle calls for its own identifier only; what it does is
\* decided by its own stored history and snapshot.
C17_NodesAreIndependent ==
    [][ step'.op = "node" =>
          /\ \A n \in NodeIDs \ {step'.node} :
                /\ (n \in DOMAIN m') = (n \in DOMAIN m)
                /\ n \in DOMAIN m => m'[n] = m[n]
          /\ \A i \in 1..Len(step'.toggles) : step'.toggles[i].id = step'.node
          /\ step'.known = (step'.node \in DOMAIN m)
          /\ step'.known => step'.before = m[step'.node]
          /\ Decoded' =>
                (step'.toggles # <<>> <=>
                    (step'.before = <<>> \/ KnownTypeChanged')) ]_vars

C17_Witness ==
    /\ Decoded
    /\ step.toggles # <<>>
    /\ \E n \in DOMAIN m \ {step.node} :
          /\ m[n] # <<>>
          /\ m[n] # m[step.node]
          /\ m[n] # step.before

\* C19: a visit issues at most one toggle call, for the node visited, each
\* entry of the node list is visited once, nothing else issues a call, and a
\* call with eligible = TRUE comes only from a visit with a 200 liveness
\* answer and a decoded snapshot without an "Unhealthy" or "true" entry.
C19_AtMostOneToggleEligibleOnlyIfHealthy ==
    /\ Len(step.toggles) <= 1
    /\ step.op # "node" => step.toggles = <<>>
    /\ (step.op = "node" /\ pc = "nodes") =>
          (idx >= 2 /\ nodes[idx - 1] = step.node)
    /\ \A i \in 1..Len(step.toggles) :
          /\ step.toggles[i].id = step.node
          /\ step.toggles[i].eligible =>
                (Decoded /\ NoBadEntry(step.current))

C19_Witness ==
    /\ Decoded
    /\ step.before # <<>>
    /\ OneToggle(TRUE)
    /\ nodes = <<"n2", "n1">>
    /\ idx = 3
\* C18: a node toggled ineligible for a non-200 liveness answer is toggled
\* eligible by the first later visit with a 200 answer and a snapshot of
\* healthy verdict: after such a visit the node is no longer marked down.
C18_RecoveredNodeIsToggledEligible ==
    (Decoded /\ NoBadEntry(step.current)) => step.node \notin down
\* the registry holds an entry of the memory check
MemRecorded == "MemoryUnderPressure" \in DOMAIN det.registry

\* the last call of the memory check
LastCall == det.calls[Len(det.calls)]

====
